---- MODULE Spec2Model ----
(***************************************************************************)
(* State-machine model of the text-expansion manager of src/App.tsx: the   *)
(* remote call gateway (runGas), the retry policy (withRetry), the         *)
(* snapshot sync engine (startGasSync, fetchNextBatch, handleSyncError,    *)
(* handleRetrySync, cancelSync) and the optimistic mutation handlers.      *)
(*                                                                         *)
(* Every async invocation of startGasSync, or of fetchNextBatch from       *)
(* handleRetrySync, is one "chain": a slot of `runs`.  A chain is suspended *)
(* either on a remote call (pc = "call") or on withRetry's backoff timer   *)
(* (pc = "wait").  Everything a handler does between two suspensions runs  *)
(* in one macrotask and is one action of the model.                        *)
(***************************************************************************)
EXTENDS Integers, Sequences, FiniteSets, TLC

VARIABLES
    isGasEnvironment,    \* useState: the host bridge window.google.script is present
    mounted,             \* the mount effect (useEffect, []) has run
    data,                \* useState<ShortcutData[]>: the local store
    loading,             \* useState(true)
    syncError,           \* useState: title of the classified error, or "none"
    snapshotState,       \* useRef: the cursor {token, offset, total}
    syncAbortController, \* useRef: "null", "fresh" (not aborted) or "aborted"
    runs,                \* the async chains of the sync engine
    muts,                \* the async invocations of handleSave / handleDelete
    maint,               \* the async invocation of handleMaintenanceAction
    remoteTotal,         \* number of records of the backend's data set
    cancelQuiet,         \* history: cancelSync ran and no sync or retry started since
    received,            \* history: <<token, offset>> of every batch appended
    wr,                  \* one invocation of withRetry on an arbitrary operation
    gw,                  \* invocations of runGas: promise, timer and remote call
    cls,                 \* the last error classified and its entry
    pure,                \* the last application of a pure function: input and result
    evt                  \* history: what the last step did

vars == <<isGasEnvironment, mounted, data, loading, syncError, snapshotState,
          syncAbortController, runs, muts, maint, remoteTotal, cancelQuiet, received,
          wr, gw, cls, pure, evt>>

\* the state of the component
appVars == <<isGasEnvironment, mounted, data, loading, syncError, snapshotState,
             syncAbortController, runs, muts, maint, remoteTotal, cancelQuiet, received>>

----------------------------------------------------------------------------
(* Bounds of the model *)

\* async chains of the sync engine over one behaviour
MaxRuns == 2
\* records of the backend's data set
MaxRemote == 3
\* records the backend returns per page
PageWidth == 1
\* handleSave / handleDelete invocations over one behaviour
MaxMuts == 2
\* of which, while the sync engine's buttons are in play
MaxStoreMuts == 1
\* the largest `retries` argument withRetry is called with
MaxRetries == 3
\* invocations of runGas over one behaviour of the gateway
MaxCalls == 3
\* tokens of an error message handed to getFriendlyError
MaxMsgLen == 2

\* retries withRetry makes after the first attempt; the source's default of 3
\* is scaled down, every attempt but the last behaves alike
DefaultRetries == 1

(* Program constants *)

\* runGas('fetchShortcutsBatch', [token, offset, 500])
BatchLimit == 500

\* LIMITS
MAX_KEY_LEN == 80
MAX_FIELD_LEN == 50000
MAX_TAGS_LEN == 512
MAX_LANGUAGE_LEN == 64
MAX_APP_LEN == 128
MAX_DESC_LEN == 2000

\* withRetry(fn, retries = 3, delay = 1000)
DefaultDelay == 1000

RunIds == 1..MaxRuns
MutIds == 1..MaxMuts
CallIds == 1..MaxCalls

Min(a, b) == IF a <= b THEN a ELSE b

----------------------------------------------------------------------------
(* Failures.  An error message is a sequence of tokens, so that            *)
(* String.includes is membership of a token and === is equality.           *)

MsgTimeout     == <<"TIMEOUT">>
MsgNetwork     == <<"NetworkError">>
MsgUnavailable == <<"GAS_UNAVAILABLE">>
MsgCancelled   == <<"CANCELLED">>
\* the message field of a backend response with ok = false
MsgRejected    == <<"rejected">>

Includes(msg, tok) == \E i \in 1..Len(msg) : msg[i] = tok

NoError == [title |-> "none", desc |-> <<>>]

\* getFriendlyError as it would be with the network rule tried first
GetFriendlyErrorNetworkFirst(msg) ==
    IF Includes(msg, "NetworkError") \/ Includes(msg, "we were unable to connect")
      THEN [title |-> "Network Failure", desc |-> <<"offline">>]
    ELSE IF Includes(msg, "TIMEOUT")
      THEN [title |-> "Connection Timeout", desc |-> <<"slow">>]
    ELSE IF msg = <<"GAS_UNAVAILABLE">>
      THEN [title |-> "Environment Error", desc |-> <<"not in GAS">>]
    ELSE IF msg = <<"CANCELLED">>
      THEN [title |-> "Cancelled", desc |-> <<"by user">>]
    ELSE [title |-> "Sync Error", desc |-> msg]

\* getFriendlyError: the first matching rule decides
GetFriendlyError(msg) ==
    IF Includes(msg, "TIMEOUT")
      THEN [title |-> "Connection Timeout", desc |-> <<"slow">>]
    ELSE IF Includes(msg, "NetworkError") \/ Includes(msg, "we were unable to connect")
      THEN [title |-> "Network Failure", desc |-> <<"offline">>]
    ELSE IF msg = MsgUnavailable
      THEN [title |-> "Environment Error", desc |-> <<"not in GAS">>]
    ELSE IF msg = MsgCancelled
      THEN [title |-> "Cancelled", desc |-> <<"by user">>]
    ELSE [title |-> "Sync Error", desc |-> msg]

\* const msg = error?.message || String(error): an Error whose message is
\* empty prints as "Error"
MessageOf(error) ==
    IF error.message # <<>> THEN error.message ELSE <<"Error">>

\* withRetry's catch as it would be if only the attempts counted
WithRetryRethrowsWhenExhausted(retries, msg) == retries = 0

\* withRetry's catch as it would be if the last attempt were not made
WithRetryRethrowsEarly(retries, msg) ==
    retries <= 1 \/ msg = MsgUnavailable \/ msg = MsgCancelled

\* withRetry's catch: the condition under which the failure is rethrown at once
WithRetryRethrows(retries, msg) ==
    retries = 0 \/ msg = MsgUnavailable \/ msg = MsgCancelled

\* what a runGas promise can settle with: the success handler with a response
\* whose ok flag is set or not, the timer, or the failure handler
Outcomes == {"ok", "notok", "TIMEOUT", "NetworkError"}
Failed(o) == o \in {"TIMEOUT", "NetworkError"}
MsgOf(o) == IF o = "TIMEOUT" THEN MsgTimeout ELSE MsgNetwork

----------------------------------------------------------------------------
(* The backend.  Its handlers are not part of src/: it is modelled as the  *)
(* interface section of the specification describes it, a fixed data set   *)
(* served in pages through a point-in-time snapshot.                       *)

KeyOf == <<"a", "b", "c", "d", "e">>

\* The values a field of a raw backend record can hold.  A string has its
\* text `s` and, where includes() looks into it, the letter groups `parts`
\* the text is made of; the empty string has neither.
Undefined == [t |-> "undefined", b |-> FALSE, s |-> "", parts |-> <<>>]
Bool(b) == [t |-> "boolean", b |-> b, s |-> "", parts |-> <<>>]
Str(s) == [t |-> "string", b |-> FALSE, s |-> s, parts |-> <<>>]
Text(parts) == [t |-> "string", b |-> FALSE, s |-> "", parts |-> parts]

\* ToBoolean: undefined, false and the empty string are falsy
Truthy(v) ==
    \/ v.t = "boolean" /\ v.b
    \/ v.t = "string" /\ (v.s # "" \/ v.parts # <<>>)

\* String.prototype.toLowerCase, letter group by letter group
LowerPart(part) ==
    CASE part \in {"SPAN", "Span", "span"} -> "span"
      [] part \in {"ENG", "Eng", "eng"} -> "eng"
      [] OTHER -> part
ToLowerCase(parts) == [i \in 1..Len(parts) |-> LowerPart(parts[i])]

RemoteRecords ==
    [i \in 1..remoteTotal |->
       [key |-> Str(KeyOf[i]), expansion |-> Str("srv"),
        language |-> Text(<<"Eng", "lish">>), favorite |-> Bool(FALSE)]]

\* openSnapshot() -> {ok, snapshotToken, total, records[], offset, hasMore}
OpenSnapshot(tok) ==
    LET n == Min(PageWidth, remoteTotal) IN
    [snapshotToken |-> tok, total |-> remoteTotal,
     shortcuts |-> SubSeq(RemoteRecords, 1, n), offset |-> n, hasMore |-> n < remoteTotal]

\* fetchBatch(token, offset, limit) -> {ok, records[], offset, hasMore}
FetchBatch(tok, offset, limit) ==
    LET left == IF offset < remoteTotal THEN remoteTotal - offset ELSE 0
        n == Min(Min(limit, PageWidth), left) IN
    [shortcuts |-> SubSeq(RemoteRecords, offset + 1, offset + n),
     offset |-> offset + n, hasMore |-> offset + n < remoteTotal]

\* the language test of normalizeShortcuts as it would be with 'eng' first
LanguageOfEngFirst(language) ==
    IF Truthy(language) /\ Includes(ToLowerCase(language.parts), "eng") THEN "english"
    ELSE IF Truthy(language) /\ Includes(ToLowerCase(language.parts), "span")
      THEN "spanish"
    ELSE "all"

\* s: item.language && item.language.toLowerCase().includes(...)
LanguageOf(language) ==
    IF Truthy(language) /\ Includes(ToLowerCase(language.parts), "span") THEN "spanish"
    ELSE IF Truthy(language) /\ Includes(ToLowerCase(language.parts), "eng")
      THEN "english"
    ELSE "all"

\* item.key || '' and item.expansion || ''
OrEmpty(v) == IF Truthy(v) THEN v.s ELSE ""

\* the callback of raw.map in normalizeShortcuts
NormalizeItem(item) ==
    [k |-> OrEmpty(item.key), e |-> OrEmpty(item.expansion),
     s |-> LanguageOf(item.language), favorite |-> Truthy(item.favorite)]

\* normalizeShortcuts: raw backend records to ShortcutData
NormalizeShortcuts(raw) == [i \in 1..Len(raw) |-> NormalizeItem(raw[i])]

----------------------------------------------------------------------------
(* The component state as one record, so that a handler is a function from *)
(* state to state and handlers compose as they call each other.            *)

NoCursor == [token |-> 0, offset |-> 0, total |-> 0]

NoRun == [pc |-> "none", fn |-> "none", retries |-> 0, token |-> 0, offset |-> 0,
          total |-> 0, cancelled |-> FALSE, superseded |-> FALSE,
          clean |-> FALSE, got |-> <<>>]

NoEvt(op) == [op |-> op, run |-> 0, fn |-> "none", token |-> 0, offset |-> 0,
              limit |-> 0, wrote |-> FALSE, toast |-> "none", mut |-> 0,
              kind |-> "none", rollback |-> FALSE, touched |-> FALSE,
              before |-> <<>>, cancelled |-> FALSE, superseded |-> FALSE,
              pre |-> NoCursor, invalid |-> FALSE, notok |-> FALSE, left |-> 0,
              key |-> "", failed |-> FALSE, settled |-> "none", action |-> <<>>,
              confirmed |-> FALSE, ok |-> FALSE, got |-> {}, inRun |-> FALSE]

Cur(op) ==
    [gas |-> isGasEnvironment,
     data |-> data, loading |-> loading, syncError |-> syncError,
     snapshotState |-> snapshotState, ctl |-> syncAbortController, runs |-> runs,
     cancelQuiet |-> cancelQuiet, received |-> received, evt |-> NoEvt(op)]

Commit(S) ==
    /\ data' = S.data
    /\ loading' = S.loading
    /\ syncError' = S.syncError
    /\ snapshotState' = S.snapshotState
    /\ syncAbortController' = S.ctl
    /\ runs' = S.runs
    /\ cancelQuiet' = S.cancelQuiet
    /\ received' = S.received
    /\ evt' = S.evt

\* history: the keys of the records a sync step appended for a batch
Appended(S) ==
    IF S.evt.wrote /\ S.evt.settled = "fetch"
      THEN {S.data[i].k : i \in (Len(data) + 1)..Len(S.data)}
      ELSE {}

\* history: a live mutation sees the store written by somebody else, and
\* which records arrived meanwhile
Touch(S) ==
    muts' = [m \in MutIds |->
               IF muts[m].pc \in {"call", "wait"} /\ S.data # data
                 THEN [muts[m] EXCEPT !.touched = TRUE,
                                      !.arrived = muts[m].arrived \cup Appended(S)]
                 ELSE muts[m]]

CommitSync(S) == Commit(S) /\ Touch(S)

Live(rs, r) == rs[r].pc \in {"call", "wait"}
FreeRuns == {r \in RunIds : runs[r].pc = "none"}
\* chains take the slots in order
NextRun == CHOOSE r \in FreeRuns : \A q \in FreeRuns : r <= q

\* history: the chain that runs in this step, and whether it had been
\* cancelled or superseded before the step
Acting(S, r) ==
    [S EXCEPT !.evt.run = r, !.evt.cancelled = S.runs[r].cancelled,
              !.evt.superseded = S.runs[r].superseded]

ShowToast(S, type) == [S EXCEPT !.evt.toast = type]

\* a chain ends: its slot keeps nothing
EndRun(S, r) == [S EXCEPT !.runs[r] = [NoRun EXCEPT !.pc = "done"]]

\* handleSyncError as it would be without the branch for a cancellation
HandleSyncErrorStoresAll(S, r, msg) ==
    [EndRun(S, r) EXCEPT !.syncError = GetFriendlyError(msg)]

\* handleSyncError
HandleSyncError(S, r, msg) ==
    IF msg = MsgCancelled
      THEN ShowToast([EndRun(S, r) EXCEPT !.loading = FALSE], "info")
      ELSE [EndRun(S, r) EXCEPT !.syncError = GetFriendlyError(msg)]

\* runGas: without the host bridge the promise is rejected at once, no timer
\* is started and nothing is sent
RunGasRejectsAtOnce(S) == ~S.gas

\* chain r calls withRetry(() => runGas(fn, args), retries): runGas issues the
\* remote call at once and the chain is suspended on its promise.  Without
\* the bridge withRetry rethrows GAS_UNAVAILABLE and the failure reaches the
\* chain's catch, which is handleSyncError for every chain.
WithRetry(S, r, fn, tok, offset, retries) ==
    IF RunGasRejectsAtOnce(S) /\ WithRetryRethrows(retries, MsgUnavailable)
      THEN HandleSyncError(S, r, MsgUnavailable)
      ELSE [S EXCEPT !.runs[r].pc = "call", !.runs[r].fn = fn,
                     !.runs[r].retries = retries,
                     !.evt.run = r, !.evt.fn = fn, !.evt.token = tok,
                     !.evt.offset = offset,
                     !.evt.limit = IF fn = "fetch" THEN BatchLimit ELSE 0]

\* finishLoading
FinishLoading(S, r) ==
    ShowToast([EndRun(S, r) EXCEPT !.loading = FALSE,
                                   !.runs[r].clean = S.runs[r].clean,
                                   !.runs[r].got = S.runs[r].got], "success")

\* fetchNextBatch as it would be without the check at its start
FetchNextBatchUnchecked(S, r, tok, offset, total) ==
    [S EXCEPT !.runs[r].pc = "call", !.runs[r].fn = "fetch",
              !.runs[r].retries = DefaultRetries,
              !.runs[r].token = tok, !.runs[r].offset = offset, !.runs[r].total = total,
              !.evt.run = r, !.evt.fn = "fetch", !.evt.token = tok,
              !.evt.offset = offset, !.evt.limit = BatchLimit]

\* fetchNextBatch up to its first suspension: the cancellation check, then
\* the retried fetchShortcutsBatch call.  Both callers route what it throws
\* to handleSyncError.
FetchNextBatch(S, r, tok, offset, total) ==
    IF S.ctl = "aborted"
      THEN HandleSyncError(S, r, MsgCancelled)
      ELSE WithRetry([S EXCEPT !.runs[r].token = tok, !.runs[r].offset = offset,
                               !.runs[r].total = total],
                     r, "fetch", tok, offset, DefaultRetries)

\* fetchNextBatch as it would be if it asked for the same batch again
FetchNextBatchResumeRefetches(S, r, ok, res) ==
    IF ~ok THEN HandleSyncError(S, r, MsgRejected)
    ELSE FetchNextBatch(S, r, S.runs[r].token, S.runs[r].offset, S.runs[r].total)

\* fetchNextBatch as it would be if it went on to the next offset without
\* storing the batch it received
FetchNextBatchResumeSkipsAppend(S, r, ok, res) ==
    IF ~ok THEN HandleSyncError(S, r, MsgRejected)
    ELSE IF res.hasMore
      THEN FetchNextBatch(S, r, S.runs[r].token, res.offset, S.runs[r].total)
      ELSE FinishLoading(S, r)

\* fetchNextBatch after its call resolved with `res`
FetchNextBatchResume(S, r, ok, res) ==
    LET tok == S.runs[r].token
        total == S.runs[r].total IN
    IF ~ok THEN HandleSyncError(S, r, MsgRejected)
    ELSE IF S.ctl = "aborted" THEN HandleSyncError(S, r, MsgCancelled)
    ELSE LET S1 == [S EXCEPT
                      !.snapshotState = [token |-> tok, offset |-> res.offset, total |-> total],
                      !.data = S.data \o NormalizeShortcuts(res.shortcuts),
                      !.received = S.received \cup {<<tok, S.runs[r].offset>>},
                      !.runs[r].got = IF S.runs[r].clean
                                        THEN S.runs[r].got \o NormalizeShortcuts(res.shortcuts)
                                        ELSE <<>>,
                      !.evt.wrote = TRUE, !.evt.run = r]
         IN IF res.hasMore THEN FetchNextBatch(S1, r, tok, res.offset, total)
                           ELSE FinishLoading(S1, r)

\* startGasSync as it would be if it kept the AbortController it finds
StartGasSyncKeepsController(S, r) ==
    [S EXCEPT !.loading = TRUE, !.syncError = NoError, !.snapshotState = NoCursor,
              !.cancelQuiet = FALSE,
              !.runs[r] = [NoRun EXCEPT !.pc = "call", !.fn = "boot",
                                        !.retries = DefaultRetries, !.clean = TRUE,
                                        !.cancelled = (S.ctl = "aborted")],
              !.evt.run = r, !.evt.fn = "boot"]

\* startGasSync up to its first suspension
StartGasSync(S, r) ==
    LET S1 == [S EXCEPT !.loading = TRUE, !.syncError = NoError,
                        !.snapshotState = NoCursor, !.ctl = "fresh",
                        !.cancelQuiet = FALSE,
                        !.runs = [q \in RunIds |->
                                    IF q = r THEN [NoRun EXCEPT !.clean = TRUE]
                                    ELSE IF Live(S.runs, q)
                                      THEN [S.runs[q] EXCEPT !.superseded = TRUE]
                                    ELSE S.runs[q]]]
    IN WithRetry(S1, r, "boot", 0, 0, DefaultRetries)

\* startGasSync after getAppBootstrapData resolved
BootstrapResume(S, r, ok) ==
    IF ~ok THEN HandleSyncError(S, r, MsgRejected)
    ELSE WithRetry(S, r, "snap", 0, 0, DefaultRetries)

\* startGasSync as it would be if the cursor were written after the batches
SnapshotResumeCursorLater(S, r, ok, res) ==
    IF ~ok THEN HandleSyncError(S, r, MsgRejected)
    ELSE LET S1 == [S EXCEPT !.data = NormalizeShortcuts(res.shortcuts),
                             !.evt.wrote = TRUE, !.evt.run = r]
         IN IF res.hasMore
              THEN FetchNextBatch(S1, r, res.snapshotToken, res.offset, res.total)
              ELSE FinishLoading(S1, r)

\* startGasSync after beginShortcutsSnapshotHandler resolved with `res`
SnapshotResume(S, r, ok, res) ==
    IF ~ok THEN HandleSyncError(S, r, MsgRejected)
    ELSE LET S1 == [S EXCEPT
                      !.snapshotState = [token |-> res.snapshotToken, offset |-> res.offset,
                                         total |-> res.total],
                      !.data = NormalizeShortcuts(res.shortcuts),
                      !.runs[r].got = IF S.runs[r].clean
                                        THEN NormalizeShortcuts(res.shortcuts) ELSE <<>>,
                      !.evt.wrote = TRUE, !.evt.run = r]
         IN IF res.hasMore
              THEN FetchNextBatch(S1, r, res.snapshotToken, res.offset, res.total)
              ELSE FinishLoading(S1, r)

\* handleRetrySync as it would be if it never resumed
HandleRetrySyncAlwaysRestarts(S, r) ==
    StartGasSync([S EXCEPT !.syncError = NoError], r)

\* handleRetrySync as it would be if it resumed whatever the cursor holds
HandleRetrySyncAlwaysResumes(S, r) ==
    LET c == S.snapshotState IN
    FetchNextBatch([S EXCEPT !.syncError = NoError, !.ctl = "fresh",
                             !.cancelQuiet = FALSE],
                   r, c.token, c.offset, c.total)

\* handleRetrySync
HandleRetrySync(S, r) ==
    LET S1 == [S EXCEPT !.syncError = NoError]
        c == S.snapshotState IN
    IF c.token # 0
      THEN FetchNextBatch([S1 EXCEPT !.ctl = "fresh", !.cancelQuiet = FALSE,
                                     !.runs = [q \in RunIds |->
                                                 IF q = r THEN NoRun
                                                 ELSE IF Live(S.runs, q)
                                                   THEN [S.runs[q] EXCEPT !.superseded = TRUE]
                                                 ELSE S.runs[q]]],
                          r, c.token, c.offset, c.total)
      ELSE StartGasSync(S1, r)

\* cancelSync as it would be if it also reset the cursor
CancelSyncResetsCursor(S) ==
    [S EXCEPT !.ctl = IF S.ctl = "null" THEN "null" ELSE "aborted",
              !.loading = FALSE, !.syncError = NoError, !.snapshotState = NoCursor,
              !.cancelQuiet = TRUE]

\* cancelSync
CancelSync(S) ==
    [S EXCEPT !.ctl = IF S.ctl = "null" THEN "null" ELSE "aborted",
              !.loading = FALSE, !.syncError = NoError,
              !.cancelQuiet = TRUE,
              !.runs = [q \in RunIds |->
                          IF Live(S.runs, q) THEN [S.runs[q] EXCEPT !.cancelled = TRUE]
                          ELSE S.runs[q]]]

----------------------------------------------------------------------------
(* withRetry on its own: one invocation withRetry(fn, retries, delay) of an *)
(* arbitrary async operation fn, which each time it is called settles with  *)
(* a value or throws an error with one of the messages of FnErrors.         *)

NoWr == [pc |-> "idle", retries |-> 0, delay |-> 0, r0 |-> 0, d0 |-> 0,
         calls |-> 0, fails |-> 0, waits |-> <<>>, last |-> <<>>, error |-> <<>>,
         fatalAt |-> 0]

FnErrors == {MsgTimeout, MsgNetwork, MsgRejected, MsgUnavailable, MsgCancelled}
Delays == {1, DefaultDelay}

\* the recursive call as it would be with a constant delay
NextDelaySame(delay) == delay

\* withRetry(fn, retries - 1, delay * 2)
NextDelay(delay) == delay * 2

\* withRetry(fn, retries, delay) is called: fn is called at once
WithRetryCalled(retries, delay) ==
    /\ wr.pc = "idle"
    /\ wr' = [NoWr EXCEPT !.pc = "call", !.retries = retries, !.delay = delay,
                          !.r0 = retries, !.d0 = delay, !.calls = 1]
    /\ UNCHANGED <<appVars, gw, cls, pure, evt>>

\* await fn() returns
FnReturns ==
    /\ wr.pc = "call"
    /\ wr' = [wr EXCEPT !.pc = "returned"]
    /\ UNCHANGED <<appVars, gw, cls, pure, evt>>

\* await fn() throws an error with message msg: rethrown, or the backoff
\* timer is started with setTimeout(res, delay)
FnThrows(msg) ==
    /\ wr.pc = "call"
    /\ LET fatal == msg \in {MsgUnavailable, MsgCancelled}
           w == [wr EXCEPT !.last = msg,
                           !.fails = IF fatal THEN wr.fails ELSE wr.fails + 1,
                           !.fatalAt = IF fatal /\ wr.fatalAt = 0 THEN wr.calls
                                       ELSE wr.fatalAt] IN
       wr' = IF WithRetryRethrows(wr.retries, msg)
               THEN [w EXCEPT !.pc = "threw", !.error = msg]
               ELSE [w EXCEPT !.pc = "wait", !.waits = Append(wr.waits, wr.delay)]
    /\ UNCHANGED <<appVars, gw, cls, pure, evt>>

\* the backoff timer fires: return withRetry(fn, retries - 1, delay * 2)
WithRetryRecurses ==
    /\ wr.pc = "wait"
    /\ wr' = [wr EXCEPT !.pc = "call", !.retries = wr.retries - 1,
                        !.delay = NextDelay(wr.delay), !.calls = wr.calls + 1]
    /\ UNCHANGED <<appVars, gw, cls, pure, evt>>

----------------------------------------------------------------------------
(* runGas on its own: each invocation is a promise, a timer and a remote    *)
(* call.  A promise settles once: resolve and reject on a settled promise   *)
(* do nothing.  The host bridge is window.google.script, the presence of    *)
(* which isGasEnvironment holds.                                            *)

NoGw == [pc |-> "none", error |-> <<>>, timer |-> "none", remote |-> "none",
         sent |-> 0, first |-> "none", late |-> "none"]

\* resolve / reject as they would be if the last one to run decided
SettleLastWins(g, pc, error) == [g EXCEPT !.pc = pc, !.error = error]

\* resolve(res) / reject(err) of the promise
Settle(g, pc, error) ==
    IF g.pc = "pending" THEN [g EXCEPT !.pc = pc, !.error = error] ELSE g

\* the bridge check as it would be after the timer is set
RejectUnavailableArmed(g) ==
    [g EXCEPT !.pc = "rejected", !.error = <<"GAS_UNAVAILABLE">>, !.timer = "armed"]

\* reject(new Error("GAS_UNAVAILABLE")); return
RejectUnavailable(g) ==
    [g EXCEPT !.pc = "rejected", !.error = MsgUnavailable]

\* the remote call as it would be if issued once more
IssueCallTwice(g) == [g EXCEPT !.remote = "sent", !.sent = g.sent + 2]

\* window.google.script.run...[funcName](...args)
IssueCall(g) == [g EXCEPT !.remote = "sent", !.sent = g.sent + 1]

\* clearTimeout(timer)
ClearTimeout(g) == [g EXCEPT !.timer = IF g.timer = "armed" THEN "cleared" ELSE g.timer]

\* history: the first of success, failure and timer expiry to happen
First(g, what) ==
    IF g.first = "none" THEN [g EXCEPT !.first = what] ELSE [g EXCEPT !.late = what]

FreeCalls == {i \in CallIds : gw[i].pc = "none"}
NextCall == CHOOSE i \in FreeCalls : \A q \in FreeCalls : i <= q

\* runGas(funcName, args) is called
RunGas ==
    /\ FreeCalls # {}
    /\ gw' = [gw EXCEPT ![NextCall] =
                IF ~isGasEnvironment
                  THEN RejectUnavailable(gw[NextCall])
                  ELSE IssueCall([gw[NextCall] EXCEPT !.pc = "pending", !.timer = "armed"])]
    /\ UNCHANGED <<appVars, wr, cls, pure, evt>>

\* the setTimeout callback: reject(new Error("TIMEOUT"))
TimerFires(i) ==
    /\ gw[i].timer = "armed"
    /\ gw' = [gw EXCEPT ![i] = Settle(First([gw[i] EXCEPT !.timer = "fired"], "timer"),
                                      "rejected", MsgTimeout)]
    /\ UNCHANGED <<appVars, wr, cls, pure, evt>>

\* withSuccessHandler's callback
SuccessHandler(i) ==
    /\ gw[i].remote = "sent"
    /\ gw' = [gw EXCEPT ![i] = Settle(ClearTimeout(First([gw[i] EXCEPT !.remote = "answered"],
                                                         "success")),
                                      "resolved", <<>>)]
    /\ UNCHANGED <<appVars, wr, cls, pure, evt>>

\* withFailureHandler's callback
FailureHandler(i) ==
    /\ gw[i].remote = "sent"
    /\ gw' = [gw EXCEPT ![i] = Settle(ClearTimeout(First([gw[i] EXCEPT !.remote = "answered"],
                                                         "failure")),
                                      "rejected", MsgNetwork)]
    /\ UNCHANGED <<appVars, wr, cls, pure, evt>>

----------------------------------------------------------------------------
(* getFriendlyError on its own, applied to errors with every message of up *)
(* to MaxMsgLen tokens.                                                     *)

MsgTokens == {"TIMEOUT", "NetworkError", "we were unable to connect",
              "GAS_UNAVAILABLE", "CANCELLED", "other"}

RECURSIVE MsgsOfLen(_)
MsgsOfLen(n) ==
    IF n = 0 THEN {<<>>}
    ELSE {Append(m, t) : m \in MsgsOfLen(n - 1), t \in MsgTokens}

Msgs == UNION {MsgsOfLen(n) : n \in 0..MaxMsgLen}

NoPure == [fn |-> "none"]

NoCls == [message |-> <<>>, msg |-> <<>>, entry |-> NoError]

\* getFriendlyError(error)
Classify(error) ==
    /\ cls' = [message |-> error.message, msg |-> MessageOf(error),
            entry |-> GetFriendlyError(MessageOf(error))]
    /\ UNCHANGED <<appVars, wr, gw, pure, evt>>

----------------------------------------------------------------------------
(* normalizeShortcuts on its own, on one raw record whose fields are        *)
(* missing, empty or set.                                                   *)

MaxParts == 2
LangParts == {"SPAN", "span", "Eng", "eng", "lish"}
PartsOfLen(n) == [1..n -> LangParts]
RawLanguages ==
    {Undefined} \cup {Text(p) : p \in UNION {PartsOfLen(n) : n \in 0..MaxParts}}
RawKeys == {Undefined, Str(""), Str(KeyOf[1])}
RawBodies == {Undefined, Str(""), Str("srv")}
RawFavorites == {Undefined, Bool(TRUE), Bool(FALSE), Str(""), Str("yes")}
RawItems ==
    [key : RawKeys, expansion : RawBodies, language : RawLanguages,
     favorite : RawFavorites]

\* normalizeShortcuts([item]) is evaluated
Normalize(item) ==
    /\ pure = NoPure
    /\ pure' = [fn |-> "normalizeShortcuts", item |-> item,
                out |-> NormalizeShortcuts(<<item>>)]
    /\ UNCHANGED <<appVars, wr, gw, cls, evt>>

----------------------------------------------------------------------------
(* The metrics of LoadingOverlay on their own: the overlay is rendered with *)
(* the records loaded, the total and the time since the sync started.       *)

MaxProgress == 4
MaxTotal == 4
\* Date.now() - startTime, in ms
ElapsedTimes == {0, 500, 1000, 60000, 90000}

\* Math.ceil(a / b) for b > 0
Ceil(a, b) == -((-a) \div b)

\* the "Est. Time" cell; etaSeconds is remainingItems / itemsPerSecond, which
\* is remainingItems * elapsed ms / (progress * 1000), when itemsPerSecond > 0
EstTime(progress, total, elapsed) ==
    LET throughput == elapsed > 0 /\ progress > 0
        remainingItems == total - progress
        etaIsZero == ~throughput \/ remainingItems = 0 IN
    IF total = 0 THEN [text |-> "--", n |-> 0]
    ELSE IF etaIsZero THEN [text |-> "s", n |-> 0]
    ELSE IF remainingItems * elapsed < 60 * progress * 1000
      THEN [text |-> "s", n |-> Ceil(remainingItems * elapsed, progress * 1000)]
    ELSE [text |-> "m", n |-> Ceil(remainingItems * elapsed, progress * 60000)]

\* the overlay is rendered once
Render(progress, total, elapsed) ==
    /\ pure = NoPure
    /\ pure' = [fn |-> "LoadingOverlay", progress |-> progress, total |-> total,
                elapsed |-> elapsed, shown |-> EstTime(progress, total, elapsed)]
    /\ UNCHANGED <<appVars, wr, gw, cls, evt>>

----------------------------------------------------------------------------
(* Initial state: the values of useState / useRef before the mount effect. *)

NoMut == [pc |-> "none", kind |-> "none", key |-> "", e |-> "", retries |-> 0,
          previousData |-> <<>>, before |-> <<>>, touched |-> FALSE,
          with |-> {}, result |-> "none", arrived |-> {}, inRun |-> FALSE]

NoMaint == [pc |-> "none", action |-> <<>>, retries |-> 0]

Init ==
    /\ isGasEnvironment \in BOOLEAN
    /\ mounted = FALSE
    /\ data = <<>>
    /\ loading = TRUE
    /\ syncError = NoError
    /\ snapshotState = NoCursor
    /\ syncAbortController = "null"
    /\ runs = [r \in RunIds |-> NoRun]
    /\ muts = [m \in MutIds |-> NoMut]
    /\ maint = NoMaint
    /\ remoteTotal \in {PageWidth, MaxRemote}
    /\ cancelQuiet = FALSE
    /\ received = {}
    /\ wr = NoWr
    /\ gw = [i \in CallIds |-> NoGw]
    /\ cls = NoCls
    /\ pure = NoPure
    /\ evt = NoEvt("init")

\* the static data set of local mode (import from './data')
EXPANSIONS_DATA ==
    <<[k |-> "a", e |-> "local", s |-> "all", favorite |-> FALSE],
      [k |-> "b", e |-> "local", s |-> "all", favorite |-> FALSE]>>

----------------------------------------------------------------------------
(* Actions of the sync engine *)

\* the mount effect
Mount ==
    /\ ~mounted
    /\ mounted' = TRUE
    /\ IF isGasEnvironment
         THEN CommitSync(StartGasSync(Cur("mount"), NextRun))
         ELSE CommitSync([Cur("mount") EXCEPT !.data = EXPANSIONS_DATA, !.loading = FALSE])
    /\ UNCHANGED <<isGasEnvironment, maint, remoteTotal, wr, gw, cls, pure>>

\* the "Sync Data" button, disabled while loading
SyncClick ==
    /\ mounted /\ ~loading /\ FreeRuns # {}
    /\ CommitSync(StartGasSync(Cur("sync"), NextRun))
    /\ UNCHANGED <<isGasEnvironment, mounted, maint, remoteTotal, wr, gw, cls, pure>>

\* the overlay's "Retry Sync" button, rendered while loading with an error
RetryClick ==
    /\ mounted /\ loading /\ syncError # NoError /\ FreeRuns # {}
    /\ CommitSync(HandleRetrySync([Cur("retry") EXCEPT !.evt.pre = snapshotState],
                                  NextRun))
    /\ UNCHANGED <<isGasEnvironment, mounted, maint, remoteTotal, wr, gw, cls, pure>>

\* the overlay's "Cancel" button, rendered while loading
CancelClick ==
    /\ mounted /\ loading
    /\ CommitSync(CancelSync(Cur("cancel")))
    /\ UNCHANGED <<isGasEnvironment, mounted, maint, remoteTotal, wr, gw, cls, pure>>

\* the runGas promise chain r awaits settles with outcome o, and the chain
\* runs to its next suspension
RunGasSettles(r, o) ==
    /\ runs[r].pc = "call"
    /\ LET S == [Acting(Cur("settle"), r) EXCEPT
                   !.evt.notok = (o = "notok"), !.evt.ok = (o = "ok"),
                   !.evt.settled = runs[r].fn,
                   !.evt.left = IF o = "notok" THEN runs[r].retries ELSE 0]
           fn == runs[r].fn IN
       CommitSync(IF Failed(o)
                THEN IF WithRetryRethrows(runs[r].retries, MsgOf(o))
                       THEN HandleSyncError(S, r, MsgOf(o))
                       ELSE [S EXCEPT !.runs[r].pc = "wait"]
              ELSE IF fn = "boot" THEN BootstrapResume(S, r, o = "ok")
              ELSE IF fn = "snap" THEN SnapshotResume(S, r, o = "ok", OpenSnapshot(r))
              ELSE FetchNextBatchResume(S, r, o = "ok",
                       FetchBatch(runs[r].token, runs[r].offset, BatchLimit)))
    /\ UNCHANGED <<isGasEnvironment, mounted, maint, remoteTotal, wr, gw, cls, pure>>

\* withRetry's backoff timer of chain r fires: the next attempt
BackoffElapses(r) ==
    /\ runs[r].pc = "wait"
    /\ CommitSync(WithRetry(Acting(Cur("timer"), r), r, runs[r].fn, runs[r].token, runs[r].offset,
                        runs[r].retries - 1))
    /\ UNCHANGED <<isGasEnvironment, mounted, maint, remoteTotal, wr, gw, cls, pure>>

----------------------------------------------------------------------------
(* The maintenance action runner *)

MaintenanceActions ==
    {<<"cleanup", "Duplicate", "Shortcuts">>, <<"find", "Empty", "Entries">>}

\* the action names after which handleMaintenanceAction reloads
IsDataMutating(action) ==
    \/ Includes(action, "cleanup") \/ Includes(action, "Cache")
    \/ Includes(action, "restore") \/ Includes(action, "Import")

\* handleMaintenanceAction up to its suspension.  The tools menu is under the
\* loading overlay, which covers the page while loading.
HandleMaintenanceAction(action) ==
    /\ mounted /\ ~loading /\ maint.pc = "none"
    /\ IF ~isGasEnvironment
         THEN /\ CommitSync(ShowToast([Cur("maint") EXCEPT !.evt.before = data], "info"))
              /\ UNCHANGED maint
         ELSE /\ CommitSync([Cur("maint") EXCEPT !.loading = TRUE, !.evt.fn = "maint"])
              /\ maint' = [pc |-> "call", action |-> action, retries |-> DefaultRetries]
    /\ UNCHANGED <<isGasEnvironment, mounted, remoteTotal, wr, gw, cls, pure>>

\* the test handleImport starts with, as it would be if it were not there
ImportUnavailableNever(S) == FALSE

\* if (!isGasEnvironment) { showToast(..., 'info'); return; }
ImportUnavailable(S) == ~S.gas

\* the files an import can be given
ImportModes == {"csv", "json"}

\* handleImport up to its suspension.  The import dialog is opened from the
\* tools menu.  What follows the call is what follows a maintenance call
\* with a data-mutating name: success toast and handleRetrySync(), or the
\* error toast and setLoading(false).
HandleImport(mode) ==
    /\ mounted /\ ~loading /\ maint.pc = "none"
    /\ IF ImportUnavailable(Cur("import"))
         THEN /\ CommitSync(ShowToast([Cur("import") EXCEPT !.evt.before = data], "info"))
              /\ UNCHANGED maint
         ELSE /\ CommitSync([Cur("import") EXCEPT !.loading = TRUE, !.evt.fn = "import"])
              /\ maint' = [pc |-> "call", action |-> <<"bulk", "Import">>,
                           retries |-> DefaultRetries]
    /\ UNCHANGED <<isGasEnvironment, mounted, remoteTotal, wr, gw, cls, pure>>

\* the catch as it would be if it left the overlay up
MaintenanceCatchKeepsLoading(S) == ShowToast(S, "error")

\* handleMaintenanceAction's catch
MaintenanceCatch(S) == ShowToast([S EXCEPT !.loading = FALSE], "error")

\* handleMaintenanceAction or handleImport after its call settled with
\* outcome o
MaintSettles(o) ==
    /\ maint.pc = "call"
    /\ (o = "ok" /\ IsDataMutating(maint.action)) => FreeRuns # {}
    /\ LET S == [Cur("maintSettle") EXCEPT !.evt.action = maint.action,
                                            !.evt.pre = snapshotState,
                                            !.evt.before = data] IN
       IF Failed(o) /\ ~WithRetryRethrows(maint.retries, MsgOf(o))
         THEN /\ CommitSync(Cur("maintSettle"))
              /\ maint' = [maint EXCEPT !.pc = "wait"]
         ELSE /\ maint' = NoMaint
              /\ CommitSync(
                   IF o = "ok"
                     THEN IF IsDataMutating(maint.action)
                            THEN HandleRetrySync(ShowToast(S, "success"), NextRun)
                            ELSE ShowToast([S EXCEPT !.loading = FALSE], "success")
                     ELSE MaintenanceCatch(S))
    /\ UNCHANGED <<isGasEnvironment, mounted, remoteTotal, wr, gw, cls, pure>>

\* withRetry's backoff timer of the maintenance call fires
MaintBackoffElapses ==
    /\ maint.pc = "wait"
    /\ maint' = [maint EXCEPT !.pc = "call", !.retries = maint.retries - 1]
    /\ CommitSync([Cur("maintTimer") EXCEPT !.evt.fn = "maint"])
    /\ UNCHANGED <<isGasEnvironment, mounted, remoteTotal, wr, gw, cls, pure>>

----------------------------------------------------------------------------
(* The mutation engine *)

\* Array.findIndex on the key: the first position, 0 when absent
IndexOfKey(store, k) ==
    IF \E i \in 1..Len(store) : store[i].k = k
      THEN CHOOSE i \in 1..Len(store) :
             store[i].k = k /\ \A j \in 1..(i - 1) : store[j].k # k
      ELSE 0

\* the optimistic update as it would be if a new record went last
OptimisticUpsertAppends(prev, item) ==
    IF \E i \in 1..Len(prev) : prev[i].k = item.k
      THEN [i \in 1..Len(prev) |->
              IF prev[i].k = item.k THEN [prev[i] EXCEPT !.e = item.e] ELSE prev[i]]
      ELSE Append(prev, [k |-> item.k, e |-> item.e, s |-> "all", favorite |-> FALSE])

\* handleSave's optimistic update: merge in place, else prepend
OptimisticUpsert(prev, item) ==
    LET idx == IndexOfKey(prev, item.k) IN
    IF idx > 0
      THEN [prev EXCEPT ![idx] = [prev[idx] EXCEPT !.e = item.e]]
      ELSE <<[k |-> item.k, e |-> item.e, s |-> "all", favorite |-> FALSE]>> \o prev

\* the backup as it would be if it did not keep the order
BackupReversed(store) == [i \in 1..Len(store) |-> store[Len(store) + 1 - i]]

\* const previousData = [...data]
Backup(store) == store

\* the catch as it would be if it left the optimistic value in place
RollbackKeepsChange(store, previousData) == store

\* handleSave / handleDelete's catch: setData(previousData)
Rollback(store, previousData) == previousData

\* handleDelete's optimistic update as it would be if the filter also turned
\* the remaining records round
OptimisticDeleteReversed(prev, key) ==
    LET kept == SelectSeq(prev, LAMBDA x : x.k # key)
    IN  [i \in 1..Len(kept) |-> kept[Len(kept) + 1 - i]]

\* handleDelete's optimistic update: prev.filter(i => i.k !== key)
RECURSIVE OptimisticDelete(_, _)
OptimisticDelete(prev, key) ==
    IF prev = <<>> THEN <<>>
    ELSE IF Head(prev).k = key THEN OptimisticDelete(Tail(prev), key)
    ELSE <<Head(prev)>> \o OptimisticDelete(Tail(prev), key)

\* the fields LIMITS names a length for
Fields == {"k", "e", "tags", "d", "application", "s"}

\* LIMITS
LimitOf(f) ==
    CASE f = "k" -> MAX_KEY_LEN
      [] f = "e" -> MAX_FIELD_LEN
      [] f = "tags" -> MAX_TAGS_LEN
      [] f = "d" -> MAX_DESC_LEN
      [] f = "application" -> MAX_APP_LEN
      [] f = "s" -> MAX_LANGUAGE_LEN

\* The form data the edit form is submitted with: the key and the body, and
\* the length of every field.  The key and the body are typed; tags and
\* application are those of the record being edited, which normalizeShortcuts
\* copies from the backend as they come; the description input carries
\* maxLength, and the language is one of the select's options.
UserKeys == {KeyOf[1], KeyOf[MaxRemote]}
KeyLens == {0, MAX_KEY_LEN, MAX_KEY_LEN + 1}
BodyLens == {0, MAX_FIELD_LEN, MAX_FIELD_LEN + 1}
TagsLens == {0, MAX_TAGS_LEN + 1}
AppLens == {0, MAX_APP_LEN + 1}

FormData(key, kl, el, tl, al) ==
    [k |-> IF kl = 0 THEN "" ELSE key,
     e |-> IF el = 0 THEN "" ELSE "usr",
     len |-> [f \in Fields |->
                CASE f = "k" -> kl
                  [] f = "e" -> el
                  [] f = "tags" -> tl
                  [] f = "application" -> al
                  [] f = "d" -> 0
                  [] f = "s" -> 3]]

\* the lengths of a form with at most one field empty or over its limit
FormLens ==
    {l \in KeyLens \X BodyLens \X TagsLens \X AppLens :
       Cardinality({i \in 1..4 : l[i] # <<MAX_KEY_LEN, MAX_FIELD_LEN, 0, 0>>[i]}) <= 1}

Items == {FormData(key, l[1], l[2], l[3], l[4]) : key \in UserKeys, l \in FormLens}

\* EditModal.validate
Validate(formData) ==
    /\ formData.k # ""
    /\ ~(formData.k # "" /\ formData.len["k"] > MAX_KEY_LEN)
    /\ formData.e # ""
    /\ ~(formData.e # "" /\ formData.len["e"] > MAX_FIELD_LEN)

\* history: the item has an empty key or body, or a field longer than LIMITS
\* allows
BreaksLimits(item) ==
    \/ item.k = "" \/ item.e = ""
    \/ \E f \in Fields : item.len[f] > LimitOf(f)

FreeMuts == {m \in MutIds : muts[m].pc = "none"}
NextMut == CHOOSE m \in FreeMuts : \A q \in FreeMuts : m <= q
LiveMuts == {m \in MutIds : muts[m].pc \in {"call", "wait"}}

\* history: a mutation step ends the "no mutation interleaved" state of the
\* live chains
Interleave(rs) ==
    [r \in RunIds |-> IF Live(rs, r) THEN [rs[r] EXCEPT !.clean = FALSE, !.got = <<>>]
                      ELSE rs[r]]

\* a handler starts its remote call: mutation NextMut is suspended on
\* withRetry(() => runGas(...)), holding its previousData
StartMut(kind, key, e, retries) ==
    muts' = [m \in MutIds |->
               IF m = NextMut
                 THEN [pc |-> "call", kind |-> kind, key |-> key, e |-> e,
                       retries |-> retries,
                       previousData |-> Backup(data),
                       before |-> data, touched |-> FALSE,
                       with |-> LiveMuts, result |-> "none", arrived |-> {},
                       inRun |-> \E r \in RunIds : Live(runs, r)]
               ELSE IF m \in LiveMuts THEN [muts[m] EXCEPT !.touched = TRUE]
               ELSE muts[m]]

\* handleSave up to its suspension
HandleSave(item) ==
    LET e0 == [NoEvt("save") EXCEPT !.invalid = BreaksLimits(item), !.before = data,
                                    !.key = item.k] IN
    /\ IF item.k = "" \/ item.e = ""
         THEN /\ evt' = [e0 EXCEPT !.toast = "error"]
              /\ UNCHANGED <<data, muts, runs>>
         ELSE IF isGasEnvironment
           THEN /\ FreeMuts # {}
                /\ data' = OptimisticUpsert(data, item)
                /\ StartMut("save", item.k, item.e, DefaultRetries)
                /\ runs' = Interleave(runs)
                /\ evt' = [e0 EXCEPT !.fn = "upsert", !.mut = NextMut]
           ELSE /\ data' = OptimisticUpsert(data, item)
                /\ evt' = [e0 EXCEPT !.toast = "success"]
                /\ UNCHANGED <<muts, runs>>
    /\ UNCHANGED <<isGasEnvironment, mounted, loading, syncError, snapshotState,
                   syncAbortController, maint, remoteTotal, cancelQuiet, received,
                   wr, gw, cls, pure>>

\* EditModal.handleSubmit: onSave(formData) when validate() passes.  The edit
\* form is opened from the page, which the loading overlay covers while
\* loading.
HandleSubmit(formData) ==
    /\ mounted /\ ~loading
    /\ IF Validate(formData)
         THEN HandleSave(formData)
         ELSE /\ evt' = [NoEvt("submit") EXCEPT !.invalid = BreaksLimits(formData),
                                                !.before = data]
              /\ UNCHANGED <<isGasEnvironment, mounted, data, loading, syncError,
                             snapshotState, syncAbortController, runs, muts, maint,
                             remoteTotal, cancelQuiet, received, wr, gw, cls, pure>>

\* the keys of the records of the store
KeysOf(store) == {store[i].k : i \in 1..Len(store)}

\* handleDelete up to its suspension, from the Delete button of the edit form
\* of a record of the store; `confirmed` is what confirm() returns
HandleDelete(key, confirmed) ==
    /\ mounted /\ ~loading /\ key \in KeysOf(data)
    /\ IF ~confirmed
         THEN /\ evt' = [NoEvt("delete") EXCEPT !.key = key, !.before = data]
              /\ UNCHANGED <<data, muts, runs>>
         ELSE IF isGasEnvironment
           THEN /\ FreeMuts # {}
                /\ data' = OptimisticDelete(data, key)
                /\ StartMut("delete", key, "", DefaultRetries)
                /\ runs' = Interleave(runs)
                /\ evt' = [NoEvt("delete") EXCEPT !.fn = "delete", !.mut = NextMut,
                                                       !.key = key, !.before = data,
                                                       !.confirmed = TRUE]
           ELSE /\ data' = OptimisticDelete(data, key)
                /\ evt' = [NoEvt("delete") EXCEPT !.toast = "success", !.key = key,
                                                       !.before = data, !.confirmed = TRUE]
                /\ UNCHANGED <<muts, runs>>
    /\ UNCHANGED <<isGasEnvironment, mounted, loading, syncError, snapshotState,
                   syncAbortController, maint, remoteTotal, cancelQuiet, received,
                   wr, gw, cls, pure>>

\* handleToggleFavorite's optimistic update
ToggleFavorite(prev, key) ==
    [i \in 1..Len(prev) |->
       IF prev[i].k = key THEN [prev[i] EXCEPT !.favorite = ~prev[i].favorite]
       ELSE prev[i]]

\* the catch of the toggle as it would be if it flipped the flag back
ToggleCatchFlipsBack(store, key) == ToggleFavorite(store, key)

\* runGas('toggleFavorite', ...).catch(err => console.error(...))
ToggleCatch(store, key) == store

\* handleToggleFavorite, from the star of a record of the store: the call is
\* runGas alone, without withRetry, and nothing awaits it
HandleToggleFavorite(key) ==
    /\ mounted /\ ~loading /\ key \in KeysOf(data)
    /\ data' = ToggleFavorite(data, key)
    /\ IF isGasEnvironment
         THEN /\ FreeMuts # {}
              /\ StartMut("toggle", key, "", 0)
              /\ evt' = [NoEvt("toggle") EXCEPT !.fn = "toggle", !.mut = NextMut,
                                                !.key = key, !.before = data]
         ELSE /\ evt' = [NoEvt("toggle") EXCEPT !.key = key, !.before = data]
              /\ UNCHANGED muts
    /\ runs' = Interleave(runs)
    /\ UNCHANGED <<isGasEnvironment, mounted, loading, syncError, snapshotState,
                   syncAbortController, maint, remoteTotal, cancelQuiet, received,
                   wr, gw, cls, pure>>

\* the toggle's promise settles with outcome o
ToggleSettles(m, o) ==
    /\ muts[m].pc = "call" /\ muts[m].kind = "toggle"
    /\ data' = IF Failed(o) THEN ToggleCatch(data, muts[m].key) ELSE data
    /\ muts' = [q \in MutIds |->
                  IF q = m THEN [NoMut EXCEPT !.pc = "done", !.kind = "toggle",
                                              !.key = muts[m].key, !.with = muts[m].with,
                                              !.result = "ignored"]
                  ELSE IF q \in LiveMuts /\ data' # data
                    THEN [muts[q] EXCEPT !.touched = TRUE]
                  ELSE muts[q]]
    /\ evt' = [NoEvt("toggleSettle") EXCEPT !.mut = m, !.kind = "toggle",
                                            !.key = muts[m].key,
                                            !.failed = (o # "ok"), !.before = data]
    /\ UNCHANGED <<isGasEnvironment, mounted, loading, syncError, snapshotState,
                   syncAbortController, runs, maint, remoteTotal, cancelQuiet, received,
                   wr, gw, cls, pure>>

\* history: what a finished mutation was
EndMut(m, result) ==
    [NoMut EXCEPT !.pc = "done", !.kind = muts[m].kind, !.key = muts[m].key,
                  !.e = muts[m].e, !.with = muts[m].with, !.result = result]

\* the remote function of a mutation
MutCall(kind) ==
    IF kind = "save" THEN "upsert" ELSE IF kind = "delete" THEN "delete" ELSE "toggle"

\* handleSave / handleDelete after the call settled with outcome o: a failure
\* is retried by withRetry; a response is tested for ok outside withRetry, and
\* what is thrown there goes to the catch
MutSettles(m, o) ==
    /\ muts[m].pc = "call" /\ muts[m].kind # "toggle"
    /\ LET e0 == [NoEvt("mutSettle") EXCEPT !.mut = m, !.kind = muts[m].kind,
                                            !.notok = (o = "notok"),
                                            !.left = IF o = "notok" THEN muts[m].retries
                                                     ELSE 0] IN
       IF Failed(o) /\ ~WithRetryRethrows(muts[m].retries, MsgOf(o))
         THEN /\ muts' = [muts EXCEPT ![m].pc = "wait"]
              /\ evt' = e0
              /\ UNCHANGED <<data, runs>>
         ELSE IF o = "ok"
           THEN /\ muts' = [muts EXCEPT ![m] = EndMut(m, "accepted")]
                /\ evt' = [e0 EXCEPT !.toast = "success"]
                /\ UNCHANGED <<data, runs>>
           ELSE /\ data' = Rollback(data, muts[m].previousData)
                /\ muts' = [q \in MutIds |->
                              IF q = m THEN EndMut(m, "rejected")
                              ELSE IF q \in LiveMuts
                                THEN [muts[q] EXCEPT !.touched = TRUE]
                              ELSE muts[q]]
                /\ runs' = Interleave(runs)
                /\ evt' = [e0 EXCEPT !.toast = "error",
                                     !.rollback = TRUE,
                                     !.touched = muts[m].touched,
                                     !.before = muts[m].before,
                                     !.got = muts[m].arrived,
                                     !.inRun = muts[m].inRun]
    /\ UNCHANGED <<isGasEnvironment, mounted, loading, syncError, snapshotState,
                   syncAbortController, maint, remoteTotal, cancelQuiet, received,
                   wr, gw, cls, pure>>

\* withRetry's backoff timer of mutation m fires
MutBackoffElapses(m) ==
    /\ muts[m].pc = "wait"
    /\ muts' = [muts EXCEPT ![m].pc = "call", ![m].retries = muts[m].retries - 1]
    /\ evt' = [NoEvt("mutTimer") EXCEPT !.fn = MutCall(muts[m].kind), !.mut = m,
                                        !.kind = muts[m].kind]
    /\ UNCHANGED <<isGasEnvironment, mounted, data, loading, syncError, snapshotState,
                   syncAbortController, runs, maint, remoteTotal, cancelQuiet, received,
                   wr, gw, cls, pure>>

----------------------------------------------------------------------------
(* Specifications.  handleSave reads and writes `data` alone, and the       *)
(* maintenance runner never reads it, so the sync engine is checked with    *)
(* the maintenance runner (Spec) and the local store with the mutation      *)
(* engine (SpecStore).                                                      *)

SyncNext ==
    \/ Mount
    \/ SyncClick
    \/ RetryClick
    \/ CancelClick
    \/ \E r \in RunIds, o \in Outcomes : RunGasSettles(r, o)
    \/ \E r \in RunIds : BackoffElapses(r)

Next ==
    \/ SyncNext
    \/ \E a \in MaintenanceActions : HandleMaintenanceAction(a)
    \/ \E mode \in ImportModes : HandleImport(mode)
    \/ \E o \in Outcomes : MaintSettles(o)
    \/ MaintBackoffElapses

Spec == Init /\ [][Next]_vars

\* The sync engine with its scheduling: the promise a chain awaits settles
\* (runGas rejects it with TIMEOUT after GAS_TIMEOUT_MS at the latest) and
\* the setTimeout of withRetry's backoff fires.
Fairness ==
    \A r \in RunIds :
        /\ WF_vars(\E o \in Outcomes : RunGasSettles(r, o))
        /\ WF_vars(BackoffElapses(r))

SpecLive == Init /\ [][SyncNext]_vars /\ Fairness

\* history: the mutations started so far
Started == Cardinality({m \in MutIds : muts[m].pc # "none"})

NextStore ==
    \/ SyncNext
    \/ \E i \in Items : Started < MaxStoreMuts /\ HandleSubmit(i)
    \/ \E k \in UserKeys, c \in BOOLEAN : Started < MaxStoreMuts /\ HandleDelete(k, c)
    \/ \E m \in MutIds, o \in Outcomes : MutSettles(m, o)
    \/ \E m \in MutIds : MutBackoffElapses(m)

SpecStore == Init /\ [][NextStore]_vars

\* the mutation engine after the initial sync, the sync buttons left alone
NextMutation ==
    \/ Mount
    \/ \E r \in RunIds, o \in Outcomes : RunGasSettles(r, o)
    \/ \E r \in RunIds : BackoffElapses(r)
    \/ \E i \in Items : HandleSubmit(i)
    \/ \E k \in UserKeys, c \in BOOLEAN : HandleDelete(k, c)
    \/ \E k \in UserKeys : HandleToggleFavorite(k)
    \/ \E m \in MutIds, o \in Outcomes : MutSettles(m, o)
    \/ \E m \in MutIds, o \in Outcomes : ToggleSettles(m, o)
    \/ \E m \in MutIds : MutBackoffElapses(m)

SpecMutation == Init /\ [][NextMutation]_vars

NextRetry ==
    \/ \E r \in 0..MaxRetries, d \in Delays : WithRetryCalled(r, d)
    \/ FnReturns
    \/ \E msg \in FnErrors : FnThrows(msg)
    \/ WithRetryRecurses

SpecRetry == Init /\ [][NextRetry]_vars

NextGateway ==
    \/ RunGas
    \/ \E i \in CallIds : TimerFires(i)
    \/ \E i \in CallIds : SuccessHandler(i)
    \/ \E i \in CallIds : FailureHandler(i)

SpecGateway == Init /\ [][NextGateway]_vars

NextClassify == \E m \in Msgs : Classify([message |-> m])

SpecClassify == Init /\ [][NextClassify]_vars

\* local mode: the page without the host bridge
InitLocal == Init /\ ~isGasEnvironment

NextLocal ==
    \/ Mount
    \/ \E i \in Items : HandleSubmit(i)
    \/ \E k \in UserKeys, c \in BOOLEAN : HandleDelete(k, c)
    \/ \E k \in UserKeys : HandleToggleFavorite(k)
    \/ \E a \in MaintenanceActions : HandleMaintenanceAction(a)
    \/ \E mode \in ImportModes : HandleImport(mode)

SpecLocal == InitLocal /\ [][NextLocal]_vars

\* normalizeShortcuts alone
NextNormalize == \E item \in RawItems : Normalize(item)

SpecNormalize == Init /\ [][NextNormalize]_vars

\* the overlay's metrics alone
NextOverlay ==
    \E progress \in 0..MaxProgress, total \in 0..MaxTotal, elapsed \in ElapsedTimes :
        Render(progress, total, elapsed)

SpecOverlay == Init /\ [][NextOverlay]_vars

----------------------------------------------------------------------------
(* Claims *)

SyncCalls == {"boot", "snap", "fetch"}

\* C1: after cancelSync ran while a chain was in progress, that chain issues
\* no further remote call (no bootstrap, open-snapshot, fetchBatch, no retry).
C1_NoCallAfterCancel ==
    (evt.fn \in SyncCalls /\ evt.run # 0) => ~evt.cancelled

\* C2: cancelSync leaves loading false and no session error, and the session
\* error stays none until a sync run or a retry is started.
C2_CancelLeavesNoError ==
    /\ evt.op = "cancel" => (~loading /\ syncError = NoError)
    /\ cancelQuiet => syncError = NoError

\* C3: a chain that was live when a newer run was started never writes the
\* local store or the cursor again.
C3_SupersededNeverWrites ==
    evt.wrote => ~evt.superseded

\* C4: the retry action, taken in the Errored state with a cursor holding
\* token T and offset o, issues fetchBatch(T, o, limit) and nothing else, and
\* leaves the cursor as it is.  (evt.pre is the cursor before the step.)
C4_RetryResumesAtCursor ==
    (evt.op = "retry" /\ evt.pre.token # 0)
      => /\ evt.fn = "fetch"
         /\ evt.token = evt.pre.token
         /\ evt.offset = evt.pre.offset
         /\ evt.limit = BatchLimit
         /\ snapshotState = evt.pre

C4_Witness ==
    evt.op = "retry" /\ evt.fn = "fetch" /\ evt.offset > 0 /\ evt.pre.token # 0

\* C5: the retry action taken with a cursor holding no token restarts the
\* sequence: with the bridge present the call it issues is bootstrap, and
\* the cursor is (null, 0, 0) when it is issued.
C5_RetryRestartsWithoutToken ==
    (evt.op = "retry" /\ evt.pre.token = 0)
      => /\ snapshotState = NoCursor
         /\ evt.fn = (IF isGasEnvironment THEN "boot" ELSE "none")

C5_Witness ==
    evt.op = "retry" /\ evt.pre.token = 0 /\ evt.fn = "boot"

\* C6: the cursor's offset never decreases while the cursor keeps its token.
C6_OffsetMonotone ==
    [][(snapshotState.token # 0 /\ snapshotState'.token = snapshotState.token)
         => snapshotState'.offset >= snapshotState.offset]_vars

\* C7: no fetchBatch is issued for an offset of a snapshot whose batch has
\* already been received and appended.
C7_NoRefetch ==
    evt.fn = "fetch" => <<evt.token, evt.offset>> \notin received

\* C8: a chain started by startGasSync whose calls all succeed, with no
\* mutation interleaved, completes with the store holding exactly the records
\* it received, in order, loading false and no error.
C8_CompletedStore ==
    (evt.toast = "success" /\ evt.op = "settle" /\ evt.run # 0 /\ runs[evt.run].clean)
      => (data = runs[evt.run].got /\ ~loading /\ syncError = NoError)

UniqueKeys(store) ==
    \A i, j \in 1..Len(store) : store[i].k = store[j].k => i = j

\* C9: no two records of the local store share a key.
C9_UniqueKeys == UniqueKeys(data)

\* C10: when an upsert is rolled back and nothing else wrote the store since
\* the upsert began, the store equals the store before the upsert.
\* (evt.before is the store when handleSave was entered.)
C10_RollbackRestores ==
    (evt.rollback /\ evt.kind = "save" /\ ~evt.touched) => data = evt.before

C10_Witness ==
    /\ evt.rollback /\ evt.kind = "save" /\ ~evt.touched
    /\ Len(data) > 0 /\ data = evt.before

\* C11: when a confirmed delete is rolled back and nothing else wrote the
\* store since the delete began, the store is what it was before the delete:
\* the deleted record is back at its position and every other record kept its
\* position.
C11_DeleteRollbackRestores ==
    (evt.rollback /\ evt.kind = "delete" /\ ~evt.touched)
      => /\ Len(data) = Len(evt.before)
         /\ \A i \in 1..Len(evt.before) : data[i] = evt.before[i]

C11_Witness ==
    /\ evt.rollback /\ evt.kind = "delete" /\ ~evt.touched
    /\ Len(data) >= 2
    /\ \E i \in 2..Len(data) : data[i].k \in UserKeys

\* the effect of finished mutation m is in the store
EffectPresent(m) ==
    IF muts[m].kind = "save"
      THEN \E i \in 1..Len(data) : data[i].k = muts[m].key /\ data[i].e = muts[m].e
      ELSE muts[m].key \notin KeysOf(data)

\* mutations m and n were in flight at the same time
Overlapped(m, n) == m \in muts[n].with \/ n \in muts[m].with

\* C12: when two mutations on different keys overlap and the remote side
\* accepts one and rejects the other, then after both have resolved the store
\* holds the accepted one's effect and not the rejected one's.
C12_MutationsIndependent ==
    \A m, n \in MutIds :
      (/\ muts[m].pc = "done" /\ muts[n].pc = "done"
       /\ Overlapped(m, n) /\ muts[m].key # muts[n].key
       /\ muts[m].result = "accepted" /\ muts[n].result = "rejected")
        => (EffectPresent(m) /\ ~EffectPresent(n))

\* C13: an upsert with an empty key or body, or with a field longer than its
\* limit, issues no remote call and leaves the store as it was.
C13_InvalidUpsertStaysLocal ==
    (evt.op \in {"submit", "save"} /\ evt.invalid)
      => (evt.fn = "none" /\ data = evt.before)

\* C14: when fn fails N times with a retryable failure and then succeeds,
\* withRetry(fn, retries, d) with retries >= N returns after N + 1 calls of
\* fn and N waits of d, 2d, ..., 2^(N-1) * d, in that order.
C14_BackoffDoubles ==
    /\ wr.pc = "returned"
         => /\ wr.calls = wr.fails + 1
            /\ wr.waits = [i \in 1..wr.fails |-> 2^(i - 1) * wr.d0]
    /\ (wr.pc = "threw" /\ wr.fatalAt = 0) => wr.fails > wr.r0

C14_Witness ==
    wr.pc = "returned" /\ wr.fails = MaxRetries /\ wr.d0 = DefaultDelay
      /\ wr.waits[wr.fails] = 2^(MaxRetries - 1) * DefaultDelay

\* C15: when fn fails with GAS_UNAVAILABLE or CANCELLED, at any attempt and
\* whatever the attempts left, withRetry throws that failure at once: no wait
\* is started and fn is not called again.
C15_FatalNeverRetried ==
    wr.fatalAt # 0
      => /\ wr.pc = "threw"
         /\ wr.error = wr.last /\ wr.error \in {MsgUnavailable, MsgCancelled}
         /\ wr.calls = wr.fatalAt
         /\ Len(wr.waits) = wr.fatalAt - 1

C15_Witness ==
    wr.pc = "threw" /\ wr.error = MsgCancelled /\ wr.fatalAt = 2 /\ wr.retries > 0

\* C16: a response with ok = false is a retryable failure: while attempts are
\* left, the call that returned it is re-issued after the backoff.
C16_RejectionRetried ==
    /\ (evt.op = "settle" /\ evt.notok /\ evt.left > 0) => runs[evt.run].pc = "wait"
    /\ (evt.op = "mutSettle" /\ evt.notok /\ evt.left > 0) => muts[evt.mut].pc = "wait"

\* C17: without the host bridge runGas rejects with GAS_UNAVAILABLE, starts
\* no timer and issues no remote call.
C17_NoBridgeNoCall ==
    \A i \in CallIds :
      (~isGasEnvironment /\ gw[i].pc # "none")
        => /\ gw[i].pc = "rejected" /\ gw[i].error = MsgUnavailable
           /\ gw[i].timer = "none"
           /\ gw[i].remote = "none" /\ gw[i].sent = 0

C17_Witness ==
    ~isGasEnvironment /\ \A i \in CallIds : gw[i].pc = "rejected"

\* C18: with the bridge present an invocation has one outcome, that of the
\* first of success, failure and timer expiry: a success after the timer
\* fired leaves the TIMEOUT rejection, and the timer never fires after a
\* success or a failure.
C18_FirstOutcomeWins ==
    \A i \in CallIds :
      (isGasEnvironment /\ gw[i].pc # "none")
        => /\ gw[i].first = "none" <=> gw[i].pc = "pending"
           /\ gw[i].first = "timer"
                => (gw[i].pc = "rejected" /\ gw[i].error = MsgTimeout)
           /\ gw[i].first = "success"
                => (gw[i].pc = "resolved" /\ gw[i].timer = "cleared" /\ gw[i].late = "none")
           /\ gw[i].first = "failure"
                => (/\ gw[i].pc = "rejected" /\ gw[i].error = MsgNetwork
                    /\ gw[i].timer = "cleared" /\ gw[i].late = "none")

C18_Witness ==
    /\ isGasEnvironment
    /\ \E i \in CallIds : gw[i].first = "timer" /\ gw[i].late = "success"
    /\ \E i \in CallIds : gw[i].first = "success"

\* C19: with the bridge present every invocation issues exactly one remote
\* call, whether it resolves, is rejected or times out.
C19_OneRemoteCall ==
    \A i \in CallIds : (isGasEnvironment /\ gw[i].pc # "none") => gw[i].sent = 1

C19_Witness ==
    /\ isGasEnvironment
    /\ \E i \in CallIds : gw[i].pc = "resolved" /\ gw[i].sent = 1
    /\ \E i \in CallIds : gw[i].error = MsgNetwork /\ gw[i].sent = 1
    /\ \E i \in CallIds : gw[i].error = MsgTimeout /\ gw[i].sent = 1

\* the rules of the classifier in their order, and their titles
RuleMatches(n, msg) ==
    CASE n = 1 -> Includes(msg, "TIMEOUT")
      [] n = 2 -> Includes(msg, "NetworkError") \/ Includes(msg, "we were unable to connect")
      [] n = 3 -> msg = MsgUnavailable
      [] n = 4 -> msg = MsgCancelled
      [] n = 5 -> TRUE

RuleTitles ==
    <<"Connection Timeout", "Network Failure", "Environment Error", "Cancelled",
      "Sync Error">>

FirstRule(msg) ==
    CHOOSE n \in 1..5 : RuleMatches(n, msg) /\ \A q \in 1..(n - 1) : ~RuleMatches(q, msg)

\* C20: getFriendlyError returns the entry of the first rule that matches in
\* the order timeout, network failure, bridge unavailable, cancellation,
\* generic; a message that matches none of the first four gets "Sync Error"
\* with the message as its description.
C20_FirstMatchWins ==
    /\ cls.entry.title = (IF cls.entry = NoError THEN "none"
                          ELSE RuleTitles[FirstRule(cls.msg)])
    /\ cls.entry.title = "Sync Error" => cls.entry.desc = cls.msg

C20_Witness ==
    /\ Includes(cls.msg, "TIMEOUT") /\ Includes(cls.msg, "NetworkError")
    /\ cls.msg[1] = "NetworkError"
    /\ cls.entry.title = "Connection Timeout"

\* C21: handleToggleFavorite flips the favourite flag of the records with the
\* key before the remote call is issued, and when that call fails the store
\* stays as it is: no rollback, no notification, no session error.
C21_ToggleNeverRolledBack ==
    /\ evt.op = "toggle"
         => /\ Len(data) = Len(evt.before)
            /\ \A i \in 1..Len(data) :
                 data[i] = IF evt.before[i].k = evt.key
                             THEN [evt.before[i] EXCEPT !.favorite = ~evt.before[i].favorite]
                             ELSE evt.before[i]
            /\ isGasEnvironment => evt.fn = "toggle"
    /\ (evt.op = "toggleSettle" /\ evt.failed)
         => (data = evt.before /\ evt.toast = "none" /\ ~evt.rollback /\ syncError = NoError)

C21_Witness ==
    /\ evt.op = "toggleSettle" /\ evt.failed
    /\ \E i \in 1..Len(data) : data[i].k = evt.key /\ data[i].favorite

\* C22: after a maintenance action of the data-mutating family succeeded, a
\* full resync starts whatever the cursor holds: the cursor is (null, 0, 0)
\* and the call issued is bootstrap; after any other action loading is
\* cleared and no sync call is issued.
C22_MaintenanceFullResync ==
    (evt.op = "maintSettle" /\ evt.toast = "success")
      => IF IsDataMutating(evt.action)
           THEN snapshotState = NoCursor /\ evt.fn = "boot"
           ELSE ~loading /\ evt.fn = "none"

\* C23: when a maintenance action fails, an error notification is shown,
\* loading is false, no sync call is issued, and the store and the cursor are
\* what they were.
C23_MaintenanceFailure ==
    (evt.op = "maintSettle" /\ evt.action # <<>> /\ evt.toast # "success")
      => /\ evt.toast = "error"
         /\ ~loading
         /\ evt.fn = "none"
         /\ data = evt.before
         /\ snapshotState = evt.pre

C23_Witness ==
    /\ evt.op = "maintSettle" /\ evt.toast = "error"
    /\ snapshotState.token # 0 /\ Len(data) > 0

\* C24: when a call of a sync run fails for good with a failure other than
\* CANCELLED, the session error is stored and loading is true, and loading
\* stays true until the retry or the cancel action.
C24_ErroredStaysLoading ==
    [][/\ (evt'.op \in {"settle", "timer"} /\ runs[evt'.run].pc \in {"call", "wait"}
             /\ runs'[evt'.run].pc = "done" /\ evt'.toast = "none")
            => (syncError' # NoError /\ loading')
       /\ (loading /\ syncError # NoError /\ evt'.op \notin {"retry", "cancel"})
            => loading']_vars

\* the steps in which startGasSync runs
StartOps == {"mount", "sync", "retry", "maintSettle"}

\* C25: the cursor becomes (null, 0, 0) only where a fresh sync starts.  A
\* step that is not such a start and does not store a page received leaves
\* the cursor as it is: cancel, error handling, retry-resume, maintenance; and
\* storing a page, completion included, leaves a token in it.
C25_CursorResetOnlyByStart ==
    [][\/ snapshotState' = snapshotState
       \/ evt'.op \in StartOps /\ evt'.fn = "boot" /\ snapshotState' = NoCursor
       \/ evt'.op = "settle" /\ evt'.wrote /\ snapshotState'.token # 0]_vars

C25_Witness ==
    evt.op = "cancel" /\ snapshotState.token # 0 /\ snapshotState.offset > 0

\* C26: from the moment cancelSync ran, the chain it cancelled never replaces
\* or appends to the store, never writes the cursor and never reports
\* completion.
C26_CancelledRunIgnored ==
    evt.cancelled => (~evt.wrote /\ evt.toast # "success")

\* C27: when open-snapshot succeeded and the first fetchBatch is issued, the
\* cursor already holds the token, the offset and the total of the snapshot.
C27_CursorBeforeFirstFetch ==
    (evt.settled = "snap" /\ evt.fn = "fetch")
      => /\ snapshotState.token # 0
         /\ snapshotState = [token |-> evt.token, offset |-> evt.offset,
                             total |-> remoteTotal]

C27_Witness ==
    evt.settled = "snap" /\ evt.fn = "fetch" /\ snapshotState.offset = PageWidth

\* C28: an iteration of fetchNextBatch that starts with the cancellation flag
\* set issues no fetchBatch call and fails with CANCELLED.
C28_FlagReadBeforeFetch ==
    /\ (evt.fn = "fetch" /\ evt.op # "timer") => syncAbortController # "aborted"
    /\ (/\ evt.settled = "snap" /\ evt.wrote /\ syncAbortController = "aborted"
        /\ snapshotState.offset < snapshotState.total)
         => (evt.fn = "none" /\ evt.toast = "info" /\ runs[evt.run].pc = "done")

C28_Witness ==
    /\ evt.settled = "snap" /\ evt.wrote /\ syncAbortController = "aborted"
    /\ evt.toast = "info"

\* history: startGasSync ran in the last step
StartedSync ==
    \/ evt.op = "mount" /\ isGasEnvironment
    \/ evt.op = "sync"
    \/ evt.op = "retry" /\ evt.pre.token = 0
    \/ /\ evt.op = "maintSettle" /\ evt.toast = "success"
       /\ IsDataMutating(evt.action) /\ evt.pre.token = 0

\* C29: starting a sync run resets the cursor, clears the session error, sets
\* loading and installs a fresh cancellation flag: the run started is not
\* cancelled, whatever was cancelled before.
C29_StartResets ==
    StartedSync
      => /\ snapshotState = NoCursor
         /\ loading
         /\ syncAbortController = "fresh"
         /\ isGasEnvironment
              => /\ syncError = NoError
                 /\ evt.fn = "boot"
                 /\ runs[evt.run].pc = "call" /\ ~runs[evt.run].cancelled

C29_Witness ==
    /\ evt.op = "sync" /\ evt.fn = "boot"
    /\ \E q \in RunIds : q # evt.run /\ runs[q].cancelled /\ runs[q].pc = "call"

\* C30: a valid upsert changes the store in the step that issues its remote
\* call: the entry of an existing key is replaced where it is, length and the
\* other records unchanged; a new key goes to index 0 and the length grows by
\* one.
C30_OptimisticUpsert ==
    (evt.op = "save" /\ ~evt.invalid)
      => LET b == evt.before
             idx == IndexOfKey(b, evt.key) IN
         /\ isGasEnvironment => evt.fn = "upsert"
         /\ IF idx > 0
              THEN /\ Len(data) = Len(b)
                   /\ data[idx].k = evt.key /\ data[idx].e = "usr"
                   /\ \A i \in 1..Len(b) : i # idx => data[i] = b[i]
              ELSE /\ Len(data) = Len(b) + 1
                   /\ data[1].k = evt.key /\ data[1].e = "usr"
                   /\ \A i \in 1..Len(b) : data[i + 1] = b[i]

C30_Witness ==
    /\ evt.op = "save" /\ ~evt.invalid /\ evt.fn = "upsert"
    /\ evt.key \notin KeysOf(evt.before) /\ Len(evt.before) >= 1

\* the positions of the records of store whose key is not key, in order
KeptPositions(store, key) == {i \in 1..Len(store) : store[i].k # key}

\* C31: a delete the user does not confirm changes nothing and issues no
\* remote call; a confirmed delete leaves no record with the key in the store
\* in the very step that issues the remote delete, and the store is then
\* exactly the other records in the order they had
C31_DeleteNeedsConfirmation ==
    evt.op = "delete" =>
        IF ~evt.confirmed
          THEN /\ data = evt.before
               /\ evt.fn = "none" /\ evt.toast = "none"
               /\ \A m \in MutIds : muts[m].pc # "call" \/ m # evt.mut
          ELSE /\ \A i \in 1..Len(data) : data[i].k # evt.key
               /\ Len(data) = Cardinality(KeptPositions(evt.before, evt.key))
               /\ \A i \in 1..Len(data) :
                     \E j \in KeptPositions(evt.before, evt.key) :
                        /\ data[i] = evt.before[j]
                        /\ Cardinality({h \in KeptPositions(evt.before, evt.key) : h < j})
                             = i - 1
               /\ isGasEnvironment =>
                     /\ evt.fn = "delete"
                     /\ muts[evt.mut].pc = "call" /\ muts[evt.mut].key = evt.key

\* a confirmed delete of the first of three records has issued its call
C31_Witness ==
    /\ evt.op = "delete" /\ evt.confirmed /\ evt.fn = "delete"
    /\ Len(evt.before) = MaxRemote /\ evt.before[1].k = evt.key
    /\ Len(data) = MaxRemote - 1

\* the step in which a chain's await resumed with a response and the abort
\* check that follows found the controller aborted
CancelledFailure ==
    /\ evt.op = "settle" /\ evt.ok /\ evt.run # 0
    /\ syncAbortController = "aborted"
    /\ \/ evt.settled = "fetch"
       \/ /\ evt.settled = "snap" /\ evt.wrote
          /\ snapshotState.offset < snapshotState.total

\* C33: a failure classified as Cancelled is never the stored session error
\* and never gives an error notification: the step that handles it gives one
\* informational notification and leaves loading false
C33_CancelledIsNotAnError ==
    /\ syncError = NoError \/ syncError.title # GetFriendlyError(MsgCancelled).title
    /\ CancelledFailure =>
          /\ evt.toast = "info"
          /\ ~loading
          /\ runs[evt.run].pc = "done"

\* a chain was cancelled while its fetch was in flight and has ended
C33_Witness ==
    CancelledFailure /\ evt.settled = "fetch" /\ evt.toast = "info" /\ ~loading

RECURSIVE Pow2(_)
Pow2(n) == IF n = 0 THEN 1 ELSE 2 * Pow2(n - 1)

\* C37: withRetry(op, n, d) on an operation all of whose attempts fail in a
\* retryable way has called it n+1 times and waited d, 2d, ..., 2^(n-1)d when
\* it fails, and fails with the failure of the last call
C37_RetrySchedule ==
    (wr.pc = "threw" /\ wr.fatalAt = 0) =>
        /\ wr.calls = wr.r0 + 1
        /\ wr.fails = wr.r0 + 1
        /\ Len(wr.waits) = wr.r0
        /\ \A i \in 1..wr.r0 : wr.waits[i] = Pow2(i - 1) * wr.d0
        /\ wr.error = wr.last

\* the defaults: four calls, waits of 1000, 2000 and 4000 ms
C37_Witness ==
    /\ wr.pc = "threw" /\ wr.fatalAt = 0
    /\ wr.r0 = 3 /\ wr.d0 = DefaultDelay
    /\ wr.calls = 4 /\ wr.waits = <<1000, 2000, 4000>>

\* the fetchShortcutsBatch promises chain r is waiting on
OutstandingFetches(r) ==
    IF runs[r].pc = "call" /\ runs[r].fn = "fetch" THEN {runs[r].offset} ELSE {}

C34_EtaUnknownWithoutThroughput ==
    pure.fn = "LoadingOverlay" =>
        IF pure.progress = 0 \/ pure.elapsed = 0 \/ pure.total = 0
          THEN pure.shown.text = "--"
          ELSE /\ pure.shown.text \in {"s", "m"}
               /\ LET unit == IF pure.shown.text = "s" THEN 1000 ELSE 60000
                      eta == (pure.total - pure.progress) * pure.elapsed IN
                  \* n = ceil(eta / (progress * unit))
                  /\ pure.shown.n * pure.progress * unit >= eta
                  /\ (pure.shown.n - 1) * pure.progress * unit < eta

\* C35: normalization gives language 'spanish' to a raw language containing
\* 'span' in any case, else 'english' to one containing 'eng' in any case,
\* else 'all' (missing and empty included); favourite is a boolean; a
\* missing key or body becomes the empty string
C35_NormalizeLanguage ==
    pure.fn = "normalizeShortcuts" =>
        LET item == pure.item
            out == pure.out[1]
            has(group) == \E i \in 1..Len(item.language.parts) :
                             item.language.parts[i] \in group IN
        /\ Len(pure.out) = 1
        /\ out.s = IF has({"SPAN", "Span", "span"}) THEN "spanish"
                   ELSE IF has({"ENG", "Eng", "eng"}) THEN "english"
                   ELSE "all"
        /\ (item.language = Undefined \/ item.language = Text(<<>>)) => out.s = "all"
        /\ out.favorite \in BOOLEAN
        /\ out.favorite = (item.favorite \in {Bool(TRUE), Str("yes")})
        /\ item.key = Undefined => out.k = ""
        /\ item.expansion = Undefined => out.e = ""
        /\ item.key.t = "string" => out.k = item.key.s
        /\ item.expansion.t = "string" => out.e = item.expansion.s

\* a record without key and body whose language holds 'Eng' before 'SPAN'
C35_Witness ==
    /\ pure.fn = "normalizeShortcuts"
    /\ pure.item.language = Text(<<"Eng", "SPAN">>)
    /\ pure.item.key = Undefined /\ pure.item.expansion = Undefined
    /\ pure.item.favorite = Str("yes")
    /\ pure.out[1] = [k |-> "", e |-> "", s |-> "spanish", favorite |-> TRUE]

\* C36: when an upsert or delete issued while a sync run is active is
\* rejected, every record appended by a batch between the start of the
\* mutation and its rollback is still in the store after the rollback
C36_RollbackKeepsBatches ==
    (evt.op = "mutSettle" /\ evt.rollback /\ evt.inRun) =>
        \A k \in evt.got : \E i \in 1..Len(data) : data[i].k = k

\* C39: without the host bridge no handler issues a remote call, so nothing
\* is in flight and nothing is rolled back; an upsert, a confirmed delete and
\* a toggle leave their change in the store; a maintenance action and an
\* import leave the store as it was and loading false, as it was when the
\* menu could be used
C39_LocalModeStaysLocal ==
    ~isGasEnvironment =>
        /\ evt.op \in {"save", "delete", "toggle", "maint", "import"} =>
              /\ evt.fn = "none" /\ ~evt.rollback
        /\ \A m \in MutIds : muts[m].pc = "none"
        /\ maint.pc = "none"
        /\ (evt.op = "save" /\ evt.toast = "success") =>
              \E i \in 1..Len(data) : data[i].k = evt.key /\ data[i].e = "usr"
        /\ (evt.op = "delete" /\ evt.confirmed) =>
              /\ \A i \in 1..Len(data) : data[i].k # evt.key
              /\ Len(data) < Len(evt.before)
        /\ evt.op = "toggle" =>
              /\ Len(data) = Len(evt.before)
              /\ \A i \in 1..Len(data) :
                    data[i].k = evt.key => data[i].favorite = ~evt.before[i].favorite
        /\ evt.op \in {"maint", "import"} =>
              /\ data = evt.before
              /\ ~loading
              /\ evt.toast = "info"

\* an import is refused on a page whose store holds a toggled record
C39_Witness ==
    /\ ~isGasEnvironment /\ evt.op = "import" /\ evt.toast = "info"
    /\ \E i \in 1..Len(data) : data[i].favorite

\* C38: every started sync run eventually ends: with every awaited call
\* settling and every backoff timer firing, a chain that is waiting on a call
\* or on a backoff has at some later time run finishLoading or
\* handleSyncError
C38_RunsTerminate ==
    \A r \in RunIds : Live(runs, r) ~> runs[r].pc = "done"

\* a run that fetched every page has completed
C38_Witness ==
    /\ evt.op = "settle" /\ evt.settled = "fetch" /\ evt.toast = "success"
    /\ runs[evt.run].pc = "done" /\ ~loading
    /\ Len(data) = MaxRemote

====
